---- MODULE Spec2Model ----
(***************************************************************************)
(* A model of expert_router_mcp.py: the role extractor (_extract_role),    *)
(* the expert cache built at module load (_initialize_experts_cache), the  *)
(* version check wrapped around the tools (version_check) and the tools.   *)
(*                                                                         *)
(* Text is a sequence of lexemes.  A lexeme is a record [t, n]: t names    *)
(* the lexeme and n is the number of its characters that are present (a    *)
(* slice such as role[:247] may cut a lexeme short).  The lexemes are the  *)
(* punctuation characters the patterns of _extract_role mention, the       *)
(* three words they mention (case-folded, as re.IGNORECASE reads them),    *)
(* the two whitespace characters " " (SP) and "\n" (NL), and runs of the   *)
(* letter x.  No pattern literal can begin or end inside one of these      *)
(* lexemes, so matching lexeme by lexeme is matching character by          *)
(* character.                                                              *)
(***************************************************************************)
EXTENDS Integers, Sequences, FiniteSets, TLC

VARIABLES
    content,          \* SpecRole: the text handed to _extract_role
    role,             \* SpecRole: what _extract_role returned
    pc,               \* position of the run
    dirExists,        \* whether ./experts exists
    dirFiles,         \* the entries of ./experts, in iterdir() order
    templatePresent,  \* whether project_instruction_template.md exists
    EXPERTS_CACHE,    \* the module global _EXPERTS_CACHE
    CURRENT_VERSION,  \* the module global _CURRENT_VERSION
    scans,            \* how often _initialize_experts_cache has run
    call,             \* the last tool call: the tool and its keyword arguments
    ran,              \* the tool body that call executed, and the arguments it got
    result,           \* what the last tool call returned
    prevCache,        \* SpecRestart: the cache of the process before the restart
    prevVersion       \* SpecRestart: its version

vars == <<content, role, pc, dirExists, dirFiles, templatePresent, EXPERTS_CACHE,
          CURRENT_VERSION, scans, call, ran, result, prevCache, prevVersion>>
roleVars == <<content, role>>
fileVars == <<dirFiles, templatePresent>>
callVars == <<call, ran, result>>
prevVars == <<prevCache, prevVersion>>

----------------------------------------------------------------------------
(* Strings *)

Width(t) ==
    CASE t = "role" -> 4
      [] t = "description" -> 11
      [] t = "system_prompt" -> 13
      [] t = "fallback" -> 91
      [] OTHER -> 1

Tok(t) == [t |-> t, n |-> Width(t)]
X(n) == [t |-> "x", n |-> n]
Str(names) == [i \in 1..Len(names) |-> Tok(names[i])]

SP == Tok("SP")
NL == Tok("NL")

RECURSIVE StrLen(_)
StrLen(s) == IF s = <<>> THEN 0 ELSE Head(s).n + StrLen(Tail(s))

IsSpace(tok) == tok.t \in {"SP", "NL"}
IsWordChar(tok) == tok.t \in {"x", "role", "description", "system_prompt"}

\* s[:k] of Python: the first k characters
RECURSIVE Slice(_, _)
Slice(s, k) ==
    IF s = <<>> \/ k <= 0 THEN <<>>
    ELSE IF Head(s).n <= k THEN <<Head(s)>> \o Slice(Tail(s), k - Head(s).n)
    ELSE <<[t |-> Head(s).t, n |-> k]>>

\* str.strip()
RECURSIVE LStrip(_)
LStrip(s) == IF s # <<>> /\ IsSpace(Head(s)) THEN LStrip(Tail(s)) ELSE s

RECURSIVE RStrip(_)
RStrip(s) ==
    IF s # <<>> /\ IsSpace(s[Len(s)]) THEN RStrip(SubSeq(s, 1, Len(s) - 1)) ELSE s

Strip(s) == RStrip(LStrip(s))

\* str.split('\n'): the pieces between the newlines, empty pieces included
RECURSIVE SplitLines(_, _)
SplitLines(s, cur) ==
    IF s = <<>> THEN <<cur>>
    ELSE IF Head(s).t = "NL" THEN <<cur>> \o SplitLines(Tail(s), <<>>)
    ELSE SplitLines(Tail(s), Append(cur, Head(s)))

HasNewline(s) == \E i \in 1..Len(s) : s[i].t = "NL"

\* the same string with adjacent runs of x written as one run
RECURSIVE Canon(_)
Canon(s) ==
    IF Len(s) < 2 THEN s
    ELSE IF s[1].t = "x" /\ s[2].t = "x"
         THEN Canon(<<X(s[1].n + s[2].n)>> \o SubSeq(s, 3, Len(s)))
         ELSE <<s[1]>> \o Canon(Tail(s))

----------------------------------------------------------------------------
(* Regular expressions, matched as re.search does under                    *)
(* re.MULTILINE | re.IGNORECASE | re.DOTALL: leftmost start, and at each   *)
(* start the first match in backtracking order.                            *)

Lit(t) == [k |-> "lit", t |-> t, cls |-> "", lazy |-> FALSE, min |-> 0, cap |-> FALSE, alts |-> {}]
Rep(cls, lazy, min, cap) ==
    [k |-> "rep", t |-> "", cls |-> cls, lazy |-> lazy, min |-> min, cap |-> cap, alts |-> {}]
Bol == [k |-> "bol", t |-> "", cls |-> "", lazy |-> FALSE, min |-> 0, cap |-> FALSE, alts |-> {}]
Eol == [k |-> "eol", t |-> "", cls |-> "", lazy |-> FALSE, min |-> 0, cap |-> FALSE, alts |-> {}]
Look(alts) == [k |-> "look", t |-> "", cls |-> "", lazy |-> FALSE, min |-> 0, cap |-> FALSE, alts |-> alts]

Lits(names) == [i \in 1..Len(names) |-> Lit(names[i])]
Ws == <<Rep("space", FALSE, 0, FALSE)>>            \* \s*
LazyGroup == <<Rep("any", TRUE, 1, TRUE)>>         \* (.+?)
GreedyGroup == <<Rep("any", FALSE, 1, TRUE)>>      \* (.+)

InClass(cls, tok) ==
    CASE cls = "any" -> TRUE                       \* . under re.DOTALL
      [] cls = "space" -> IsSpace(tok)             \* \s
      [] cls = "notdq" -> tok.t # "DQ"             \* [^"]
      [] cls = "notsq" -> tok.t # "SQ"             \* [^']
      [] cls = "notgt" -> tok.t # ">"              \* [^>]

\* how many lexemes from pos on are in the class
RECURSIVE RunLen(_, _, _)
RunLen(cls, s, pos) ==
    IF pos <= Len(s) /\ InClass(cls, s[pos]) THEN 1 + RunLen(cls, s, pos + 1) ELSE 0

\* one alternative of a lookahead: a sequence of lexeme tests, or the end (\Z)
LookItem(item, s, pos) ==
    CASE item = "END" -> pos = Len(s) + 1
      [] item = "WORD" -> pos <= Len(s) /\ IsWordChar(s[pos])
      [] OTHER -> pos <= Len(s) /\ s[pos].t = item

LookOk(alt, s, pos) == \A j \in 1..Len(alt) : LookItem(alt[j], s, pos + j - 1)

NoMatch == [ok |-> FALSE, from |-> 0, to |-> 0]

RECURSIVE MatchAt(_, _, _, _, _), TryCount(_, _, _, _, _, _, _)
MatchAt(pat, k, s, pos, cap) ==
    IF k > Len(pat) THEN [ok |-> TRUE, from |-> cap[1], to |-> cap[2]]
    ELSE LET e == pat[k] IN
      CASE e.k = "lit" ->
             IF pos <= Len(s) /\ s[pos].t = e.t /\ s[pos].n = Width(e.t)
             THEN MatchAt(pat, k + 1, s, pos + 1, cap) ELSE NoMatch
        [] e.k = "bol" ->
             IF pos = 1 \/ s[pos - 1].t = "NL"
             THEN MatchAt(pat, k + 1, s, pos, cap) ELSE NoMatch
        [] e.k = "eol" ->
             IF pos = Len(s) + 1 \/ s[pos].t = "NL"
             THEN MatchAt(pat, k + 1, s, pos, cap) ELSE NoMatch
        [] e.k = "look" ->
             IF \E a \in e.alts : LookOk(a, s, pos)
             THEN MatchAt(pat, k + 1, s, pos, cap) ELSE NoMatch
        [] e.k = "rep" ->
             LET m == RunLen(e.cls, s, pos) IN
             IF m < e.min THEN NoMatch
             ELSE TryCount(pat, k, s, pos, cap, IF e.lazy THEN e.min ELSE m, m)

\* the repetition pat[k] taking n lexemes, then fewer (greedy) or more (lazy)
TryCount(pat, k, s, pos, cap, n, m) ==
    LET e == pat[k]
        r == MatchAt(pat, k + 1, s, pos + n, IF e.cap THEN <<pos, pos + n - 1>> ELSE cap)
    IN  IF r.ok THEN r
        ELSE IF e.lazy
             THEN IF n + 1 > m THEN NoMatch ELSE TryCount(pat, k, s, pos, cap, n + 1, m)
             ELSE IF n - 1 < e.min THEN NoMatch ELSE TryCount(pat, k, s, pos, cap, n - 1, m)

\* re.search: the match at the leftmost start that has one
Search(pat, s) ==
    LET starts == {i \in 1..(Len(s) + 1) : MatchAt(pat, 1, s, i, <<0, 0>>).ok} IN
    IF starts = {} THEN NoMatch
    ELSE MatchAt(pat, 1, s, CHOOSE i \in starts : \A j \in starts : i <= j, <<0, 0>>)

----------------------------------------------------------------------------
(* _extract_role *)

ShortLine == 50
MaxRoleLen == 250
KeepLen == 247

OpenTag(word) == Lits(<<"<", word, ">">>)
CloseTag(word) == Lits(<<"<", "/", word, ">">>)
YamlAhead == Look({<<"NL", "WORD">>, <<"NL", "#">>, <<"END">>})     \* (?=\n\w|\n#|\Z)
HeadingAhead == Look({<<"NL", "#">>, <<"NL", "NL">>, <<"END">>})    \* (?=\n#|\n\n|\Z)

\* "<key>"\s*:\s*"([^"]+)" with the quote q and the class that excludes it
QuotedKey(q, word, cls) ==
    Lits(<<q, word, q>>) \o Ws \o Lits(<<":">>) \o Ws \o Lits(<<q>>)
      \o <<Rep(cls, FALSE, 1, TRUE)>> \o Lits(<<q>>)

\* ^<hashes>\s*<word>\s*\n(.+?)(?=\n#|\n\n|\Z)
Heading(hashes, word) ==
    <<Bol>> \o Lits(hashes) \o Ws \o Lits(<<word>>) \o Ws \o Lits(<<"NL">>)
      \o LazyGroup \o <<HeadingAhead>>

\* <prefix><word>\s*:\s*(.+)$
ColonLine(prefix, word) ==
    prefix \o Lits(<<word>>) \o Ws \o Lits(<<":">>) \o Ws \o GreedyGroup \o <<Eol>>

patterns ==
    << OpenTag("role") \o Ws \o LazyGroup \o Ws \o CloseTag("role"),
       OpenTag("system_prompt") \o Ws \o LazyGroup \o Ws \o CloseTag("system_prompt"),
       QuotedKey("DQ", "system_prompt", "notdq"),
       QuotedKey("DQ", "description", "notdq"),
       QuotedKey("SQ", "description", "notsq"),
       <<Bol>> \o Lits(<<"description">>) \o Ws \o Lits(<<":">>) \o Ws
         \o LazyGroup \o <<YamlAhead>>,
       Lits(<<"<", "description">>) \o <<Rep("notgt", FALSE, 0, FALSE)>> \o Lits(<<">">>)
         \o Ws \o LazyGroup \o Ws \o CloseTag("description"),
       Heading(<<"#">>, "role"),
       Heading(<<"#", "#">>, "role"),
       Heading(<<"#">>, "description"),
       ColonLine(Lits(<<"#">>) \o Ws, "role"),
       ColonLine(Lits(<<"/", "/">>) \o Ws, "role"),
       ColonLine(Lits(<<"#">>) \o Ws, "description"),
       ColonLine(Lits(<<"/", "/">>) \o Ws, "description"),
       ColonLine(<<Bol>>, "role"),
       ColonLine(<<Bol>>, "description") >>

Fallback == <<Tok("fallback")>>
Ellipsis == Str(<<".", ".", ".">>)

\* [line.strip() for line in role.split('\n') if line.strip()]
NonBlank(ls) == SelectSeq([i \in 1..Len(ls) |-> Strip(ls[i])], LAMBDA l : l # <<>>)

\* lines 244-261: the matched group made into the listed role
CleanRole(group) ==
    LET stripped == Strip(group)
        lines == NonBlank(SplitLines(stripped, <<>>))
        oneLine ==
            IF HasNewline(stripped) /\ lines # <<>>
            THEN IF StrLen(lines[1]) < ShortLine /\ Len(lines) > 1
                 THEN lines[1] \o <<SP>> \o lines[2]
                 ELSE lines[1]
            ELSE stripped
    IN  IF StrLen(oneLine) > MaxRoleLen THEN Slice(oneLine, KeepLen) \o Ellipsis
        ELSE oneLine

RECURSIVE FirstMatch(_, _, _)
FirstMatch(pats, c, i) ==
    IF i > Len(pats) THEN Fallback
    ELSE LET m == Search(pats[i], c) IN
         IF m.ok THEN CleanRole(SubSeq(c, m.from, m.to))
         ELSE FirstMatch(pats, c, i + 1)

\* the cascade read from its last pattern to its first
RECURSIVE LastMatch(_, _, _)
LastMatch(pats, c, i) ==
    IF i < 1 THEN Fallback
    ELSE LET m == Search(pats[i], c) IN
         IF m.ok THEN CleanRole(SubSeq(c, m.from, m.to))
         ELSE LastMatch(pats, c, i - 1)

extract_role_reversed(c) == LastMatch(patterns, c, Len(patterns))

extract_role(c) == FirstMatch(patterns, c, 1)

----------------------------------------------------------------------------
(* The texts _extract_role is tried on: one marked-up segment, or two      *)
(* segments on two lines.  A segment is a marker of one of the kinds the   *)
(* patterns look for, around an inner text of at most MaxInner lexemes.    *)

MaxInner == 3

InnerLexemes == {X(49), X(50), X(201), NL, SP}
Inners == UNION {[1..k -> InnerLexemes] : k \in 0..MaxInner}
Plain == <<X(49)>>

Kinds ==
    {"role", "system_prompt", "json_system_prompt", "json_description",
     "sq_description", "yaml_description", "xml_description", "md_role",
     "md2_role", "md_description", "hash_role", "slash_role",
     "hash_description", "slash_description", "line_role", "line_description",
     "text", "stray_close"}

Segment(kind, inner) ==
    CASE kind = "role" ->
           Str(<<"<", "role", ">">>) \o inner \o Str(<<"<", "/", "role", ">">>)
      [] kind = "system_prompt" ->
           Str(<<"<", "system_prompt", ">">>) \o inner
             \o Str(<<"<", "/", "system_prompt", ">">>)
      [] kind = "json_system_prompt" ->
           Str(<<"DQ", "system_prompt", "DQ", ":", "SP", "DQ">>) \o inner \o Str(<<"DQ">>)
      [] kind = "json_description" ->
           Str(<<"DQ", "description", "DQ", ":", "SP", "DQ">>) \o inner \o Str(<<"DQ">>)
      [] kind = "sq_description" ->
           Str(<<"SQ", "description", "SQ", ":", "SP", "SQ">>) \o inner \o Str(<<"SQ">>)
      [] kind = "yaml_description" -> Str(<<"description", ":", "SP">>) \o inner
      [] kind = "xml_description" ->
           Str(<<"<", "description", "SP", "x", ">">>) \o inner
             \o Str(<<"<", "/", "description", ">">>)
      [] kind = "md_role" -> Str(<<"#", "SP", "role", "NL">>) \o inner
      [] kind = "md2_role" -> Str(<<"#", "#", "SP", "role", "NL">>) \o inner
      [] kind = "md_description" -> Str(<<"#", "SP", "description", "NL">>) \o inner
      [] kind = "hash_role" -> Str(<<"#", "SP", "role", ":", "SP">>) \o inner
      [] kind = "slash_role" -> Str(<<"/", "/", "SP", "role", ":", "SP">>) \o inner
      [] kind = "hash_description" -> Str(<<"#", "description", ":">>) \o inner
      [] kind = "slash_description" -> Str(<<"/", "/", "description", ":">>) \o inner
      [] kind = "line_role" -> Str(<<"role", ":", "SP">>) \o inner
      [] kind = "line_description" -> Str(<<"description", "SP", ":">>) \o inner
      [] kind = "text" -> inner
      [] kind = "stray_close" -> Str(<<"<", "/", "role", ">">>) \o inner

Contents ==
    {Segment(k, in) : k \in Kinds, in \in Inners}
    \cup {Segment("role", in) \o <<NL>> \o Segment(k, Plain) : k \in Kinds, in \in Inners}
    \cup {Segment(k, Plain) \o <<NL>> \o Segment("role", in) : k \in Kinds, in \in Inners}
    \cup {Segment(k1, Plain) \o <<NL>> \o Segment(k2, Plain) : k1 \in Kinds, k2 \in Kinds}

----------------------------------------------------------------------------
(* Optional[str] values.  A version is None or a string; the strings are   *)
(* the literals the code and its callers write, and the digests.  The      *)
(* digest md5(text).hexdigest()[:8] is taken to be collision-free: it is   *)
(* modelled by the text it digests.                                        *)

None == [none |-> TRUE, lit |-> "", data |-> <<>>]
Literal(l) == [none |-> FALSE, lit |-> l, data |-> <<>>]
md5(text) == [none |-> FALSE, lit |-> "md5", data |-> Canon(text)]
Truthy(v) == ~v.none /\ v # Literal("")           \* bool(v) of an Optional[str]

NoCache == [none |-> TRUE, experts |-> <<>>]
Dict(d) == [none |-> FALSE, experts |-> d]

----------------------------------------------------------------------------
(* dict: a sequence of [id, content, role, filename], in insertion order *)

Keys(d) == [i \in 1..Len(d) |-> d[i].id]
HasKey(d, id) == \E i \in 1..Len(d) : d[i].id = id
Get(d, id) == d[CHOOSE i \in 1..Len(d) : d[i].id = id]
\* d[id] = e: a new key goes last, a known key keeps its place
Put(d, e) ==
    IF HasKey(d, e.id) THEN [i \in 1..Len(d) |-> IF d[i].id = e.id THEN e ELSE d[i]]
    ELSE Append(d, e)

RECURSIVE Join(_)
Join(texts) == IF texts = <<>> THEN <<>> ELSE Head(texts) \o Join(Tail(texts))

----------------------------------------------------------------------------
(* _initialize_experts_cache *)

text_extensions == {".txt", ".md", ".json", ".xml", ".yaml", ".yml", ".py", ".js", ".html"}

\* str.lower() on the suffixes the model's files have
Lower(suffix) == IF suffix = ".TXT" THEN ".txt" ELSE suffix

Qualifies(f) == f.isFile /\ (Lower(f.suffix) \in text_extensions \/ f.suffix = "")

\* lines 38-55 with the try/except around the loop instead of inside it
RECURSIVE LoadFilesAbort(_, _)
LoadFilesAbort(files, experts) ==
    IF files = <<>> THEN experts
    ELSE LET f == Head(files) IN
         IF Qualifies(f) /\ ~f.readable THEN experts
         ELSE IF Qualifies(f)
         THEN LoadFilesAbort(Tail(files),
                             Put(experts, [id |-> f.stem, content |-> f.content,
                                           role |-> extract_role(f.content),
                                           filename |-> <<f.stem, f.suffix>>]))
         ELSE LoadFilesAbort(Tail(files), experts)

\* lines 38-55: the loop over iterdir(); a file whose read raises is skipped
RECURSIVE LoadFiles(_, _)
LoadFiles(files, experts) ==
    IF files = <<>> THEN experts
    ELSE LET f == Head(files) IN
         IF Qualifies(f) /\ f.readable
         THEN LoadFiles(Tail(files),
                        Put(experts, [id |-> f.stem, content |-> f.content,
                                      role |-> extract_role(f.content),
                                      filename |-> <<f.stem, f.suffix>>]))
         ELSE LoadFiles(Tail(files), experts)

\* lines 57-62
VersionHash(experts) ==
    IF experts # <<>>
    THEN md5(Join([i \in 1..Len(experts) |-> experts[i].content]))
    ELSE Literal("empty")

\* the globals and the directory the functions below change
Globals == [cache |-> EXPERTS_CACHE, version |-> CURRENT_VERSION, scans |-> scans,
            dirExists |-> dirExists]

\* lines 57-64: the cache and the version made of the loaded experts
Loaded(g, experts) ==
    [cache |-> Dict(experts), version |-> VersionHash(experts), scans |-> g.scans + 1,
     dirExists |-> TRUE]

\* the globals after _EXPERTS_CACHE, _CURRENT_VERSION = _initialize_experts_cache()
initialize_experts_cache(g) ==
    IF ~g.dirExists
    THEN [cache |-> Dict(<<>>), version |-> Literal("empty"), scans |-> g.scans + 1,
          dirExists |-> TRUE]
    ELSE Loaded(g, LoadFiles(dirFiles, <<>>))

\* get_cached_experts with "not _EXPERTS_CACHE" for "_EXPERTS_CACHE is None"
get_cached_experts_if_falsy(g) ==
    IF g.cache.none \/ g.cache.experts = <<>> THEN initialize_experts_cache(g) ELSE g

\* lines 66-78: the globals after the call; it returns their cache
get_cached_experts(g) == IF g.cache.none THEN initialize_experts_cache(g) ELSE g

\* lines 80-92: the globals after the call; it returns their version
get_current_version(g) == IF g.version.none THEN initialize_experts_cache(g) ELSE g

----------------------------------------------------------------------------
(* Results.  A returned text is modelled by what it is made of: its kind   *)
(* (which f-string wrote it) and the values formatted into it.  The        *)
(* timestamp is left out.  A call's outcome is [g, out, ran]: the globals  *)
(* after it, the value returned (or the exception raised), and the tool    *)
(* body that ran.                                                          *)

NotRun == [body |-> "none", keys |-> {}]
Out(g, out) == [g |-> g, out |-> out, ran |-> NotRun]

ExpertList(experts) == [i \in 1..Len(experts) |-> [id |-> experts[i].id, role |-> experts[i].role]]

ConfigError == [kind |-> "config_error"]
Raised(exception) == [kind |-> "raised", exception |-> exception]

\* lines 272-281: raises FileNotFoundError when the template file is missing
load_project_template ==
    IF ~templatePresent THEN [raises |-> TRUE, exception |-> "FileNotFoundError"]
    ELSE [raises |-> FALSE, exception |-> ""]

\* lines 161-197, with the template loaded
UpdateText(provided_version, current_version, experts) ==
    [kind |-> "version_update",
     banner |-> IF provided_version.none THEN "initial_setup_required" ELSE "update_required",
     provided |-> provided_version,
     version |-> current_version,
     expert_list |-> ExpertList(experts)]

\* lines 155-197 without the try/except around _load_project_template()
UpdateUncaught(provided_version, current_version, g1) ==
    IF load_project_template.raises THEN Out(g1, Raised(load_project_template.exception))
    ELSE Out(g1, UpdateText(provided_version, current_version, g1.cache.experts))

\* lines 155-197: g1 are the globals after get_cached_experts()
Update(provided_version, current_version, g1) ==
    IF load_project_template.raises THEN Out(g1, ConfigError)
    ELSE Out(g1, UpdateText(provided_version, current_version, g1.cache.experts))

\* lines 141-197
generate_project_instruction_update(provided_version, current_version, g) ==
    Update(provided_version, current_version, get_cached_experts(g))

NoUpdate == [kind |-> "none"]

\* lines 110-114 with the mismatch test left out
CompareNoneOnly(provided_version, g1) ==
    IF provided_version.none
    THEN generate_project_instruction_update(provided_version, g1.version, g1)
    ELSE Out(g1, NoUpdate)

\* lines 110-114: g1 are the globals after get_current_version()
Compare(provided_version, g1) ==
    IF provided_version.none \/ provided_version # g1.version
    THEN generate_project_instruction_update(provided_version, g1.version, g1)
    ELSE Out(g1, NoUpdate)

\* lines 98-114
check_version_compatibility(provided_version, g) ==
    Compare(provided_version, get_current_version(g))

\* kwargs.get('version')
VersionOf(kwargs) == IF "version" \in DOMAIN kwargs THEN kwargs["version"] ELSE None
Filtered(kwargs) == [k \in DOMAIN kwargs \ {"version"} |-> kwargs[k]]

----------------------------------------------------------------------------
(* The tools *)

wakeup_server(g) == Out(g, [kind |-> "wakeup"])

\* line 367: current_version or version
CheckVersion(kwargs) ==
    IF Truthy(kwargs["current_version"]) THEN kwargs["current_version"]
    ELSE kwargs["version"]

\* lines 373-412: g2 are the globals after get_cached_experts() and
\* get_current_version()
Instruction(check_version, g2) ==
    IF load_project_template.raises THEN Out(g2, ConfigError)
    ELSE Out(g2, [kind |-> "instruction",
                  banner |-> IF check_version.none THEN "initial_setup"
                             ELSE IF check_version # g2.version THEN "update_required"
                             ELSE "up_to_date",
                  provided |-> check_version,
                  version |-> g2.version,
                  expert_list |-> ExpertList(g2.cache.experts)])

\* lines 358-412
get_project_instruction(kwargs, g) ==
    Instruction(CheckVersion(kwargs), get_current_version(get_cached_experts(g)))

EntryOf(expert) ==
    [kind |-> "expert", id |-> expert.id, filename |-> expert.filename,
     content |-> expert.content]

NotFound(expert_id, experts) ==
    [kind |-> "not_found", id |-> expert_id, available |-> Keys(experts)]

\* lines 431-441 returning the first expert for every identifier
ConsultFirst(expert_id, g1) ==
    IF g1.cache.experts = <<>> THEN Out(g1, NotFound(expert_id, g1.cache.experts))
    ELSE Out(g1, EntryOf(g1.cache.experts[1]))

\* lines 431-441: g1 are the globals after get_cached_experts()
Consult(expert_id, g1) ==
    IF ~HasKey(g1.cache.experts, expert_id)
    THEN Out(g1, NotFound(expert_id, g1.cache.experts))
    ELSE Out(g1, EntryOf(Get(g1.cache.experts, expert_id)))

\* lines 427-441
consult_expert(kwargs, g) == Consult(kwargs["expert_id"], get_cached_experts(g))

\* lines 456-470
ConsultMany(expert_ids, g1) ==
    Out(g1, [kind |-> "multiple",
             parts |-> [i \in 1..Len(expert_ids) |->
                          IF HasKey(g1.cache.experts, expert_ids[i])
                          THEN EntryOf(Get(g1.cache.experts, expert_ids[i]))
                          ELSE [kind |-> "error", id |-> expert_ids[i]]]])

\* lines 453-470
consult_multiple_experts(kwargs, g) ==
    ConsultMany(kwargs["expert_ids"], get_cached_experts(g))

\* lines 486-494
Listing(g1) ==
    IF g1.cache.experts = <<>> THEN Out(g1, [kind |-> "no_experts"])
    ELSE Out(g1, [kind |-> "listing",
                  entries |-> [i \in 1..Len(g1.cache.experts) |->
                                 [id |-> g1.cache.experts[i].id,
                                  filename |-> g1.cache.experts[i].filename,
                                  role |-> g1.cache.experts[i].role]]])

\* lines 482-494
list_experts(kwargs, g) == Listing(get_cached_experts(g))

\* lines 510-524
Status(g2) ==
    Out(g2, [kind |-> "status", version |-> g2.version, count |-> Len(g2.cache.experts),
             files |-> [i \in 1..Len(g2.cache.experts) |->
                          [id |-> g2.cache.experts[i].id,
                           filename |-> g2.cache.experts[i].filename]]])

\* lines 506-524
get_expert_system_status(kwargs, g) ==
    Status(get_current_version(get_cached_experts(g)))

\* the function a version-checked tool name is bound to
ToolBody(name, kwargs, g) ==
    CASE name = "consult_expert" -> consult_expert(kwargs, g)
      [] name = "consult_multiple_experts" -> consult_multiple_experts(kwargs, g)
      [] name = "list_experts" -> list_experts(kwargs, g)
      [] name = "get_expert_system_status" -> get_expert_system_status(kwargs, g)

\* line 137: func(*args, **filtered_kwargs) has returned done
Ran(name, filtered_kwargs, done) ==
    [g |-> done.g, out |-> done.out,
     ran |-> [body |-> name, keys |-> DOMAIN filtered_kwargs]]

\* lines 130-137: checked is what check_version_compatibility returned
Wrapped(name, kwargs, checked) ==
    IF checked.out.kind # "none" THEN checked
    ELSE Ran(name, Filtered(kwargs), ToolBody(name, Filtered(kwargs), checked.g))

\* lines 124-137: the wrapper around the tool body
version_check(name, kwargs, g) ==
    Wrapped(name, kwargs, check_version_compatibility(VersionOf(kwargs), g))

----------------------------------------------------------------------------
(* The file system and the callers *)

MaxFiles == 2
MaxIds == 2

RoleText == Segment("role", <<X(49)>>)

File(stem, suffix, isFile, readable, text) ==
    [stem |-> stem, suffix |-> suffix, isFile |-> isFile, readable |-> readable,
     content |-> text]

FileChoices ==
    { File("python_specialist", ".md", TRUE, TRUE, RoleText),
      File("data_analysis", "", TRUE, TRUE, <<>>),
      File("python_specialist", ".TXT", TRUE, TRUE, <<X(1)>>),
      File("notes", ".bin", TRUE, TRUE, <<X(1)>>),
      File("archive", "", FALSE, TRUE, <<>>),
      File("broken", ".md", TRUE, FALSE, <<>>) }

ContentChoices == {<<>>, <<X(1)>>, RoleText}

Name(f) == <<f.stem, f.suffix>>
DistinctNames(files) ==
    \A i, j \in 1..Len(files) : i # j => Name(files[i]) # Name(files[j])

Directories ==
    {d \in UNION {[1..n -> FileChoices] : n \in 0..MaxFiles} : DistinctNames(d)}

RequestIds == {"python_specialist", "data_analysis", "python"}
IdLists == UNION {[1..n -> RequestIds] : n \in 0..MaxIds}

\* the version strings a caller may pass
VersionArgs == {None, Literal(""), Literal("empty"), Literal("stale"), CURRENT_VERSION}

\* keyword arguments with or without a version
WithVersion(kwargs, given, v) == IF given THEN ("version" :> v) @@ kwargs ELSE kwargs

Checked ==
    {"consult_expert", "consult_multiple_experts", "list_experts", "get_expert_system_status"}

NoCall == [tool |-> "none", kwargs |-> <<>>]
NoResult == [kind |-> "none"]

----------------------------------------------------------------------------
(* Spec: the server from module load on *)

Init ==
    /\ content = <<>>
    /\ role = <<>>
    /\ pc = "load"
    /\ dirExists \in BOOLEAN
    /\ dirFiles \in (IF dirExists THEN Directories ELSE {<<>>})
    /\ templatePresent \in BOOLEAN
    /\ EXPERTS_CACHE = NoCache             \* line 14
    /\ CURRENT_VERSION = None              \* line 15
    /\ scans = 0
    /\ call = NoCall
    /\ ran = NotRun
    /\ result = NoResult
    /\ prevCache = NoCache
    /\ prevVersion = None

SetGlobals(g) ==
    /\ EXPERTS_CACHE' = g.cache
    /\ CURRENT_VERSION' = g.version
    /\ scans' = g.scans
    /\ dirExists' = g.dirExists

\* line 527
ModuleLoad ==
    /\ pc = "load"
    /\ SetGlobals(initialize_experts_cache(Globals))
    /\ pc' = "serve"
    /\ UNCHANGED <<roleVars, fileVars, callVars, prevVars>>

\* a tool call returned r
Returns(tool, kwargs, r) ==
    /\ SetGlobals(r.g)
    /\ call' = [tool |-> tool, kwargs |-> kwargs]
    /\ ran' = r.ran
    /\ result' = r.out
    /\ pc' = "returned"
    /\ UNCHANGED <<roleVars, fileVars, prevVars>>

WakeupServer ==
    /\ pc = "serve"
    /\ Returns("wakeup_server", <<>>, wakeup_server(Globals))

GetProjectInstruction ==
    /\ pc = "serve"
    /\ \E cv \in VersionArgs, v \in VersionArgs :
         LET kwargs == [current_version |-> cv, version |-> v] IN
         Returns("get_project_instruction", kwargs, get_project_instruction(kwargs, Globals))

ConsultExpert ==
    /\ pc = "serve"
    /\ \E id \in RequestIds, given \in BOOLEAN, v \in VersionArgs :
         LET kwargs == WithVersion([expert_id |-> id], given, v) IN
         Returns("consult_expert", kwargs, version_check("consult_expert", kwargs, Globals))

ConsultMultipleExperts ==
    /\ pc = "serve"
    /\ \E ids \in IdLists, given \in BOOLEAN, v \in VersionArgs :
         LET kwargs == WithVersion([expert_ids |-> ids], given, v) IN
         Returns("consult_multiple_experts", kwargs,
                 version_check("consult_multiple_experts", kwargs, Globals))

ListExperts ==
    /\ pc = "serve"
    /\ \E given \in BOOLEAN, v \in VersionArgs :
         LET kwargs == WithVersion(<<>>, given, v) IN
         Returns("list_experts", kwargs, version_check("list_experts", kwargs, Globals))

GetExpertSystemStatus ==
    /\ pc = "serve"
    /\ \E given \in BOOLEAN, v \in VersionArgs :
         LET kwargs == WithVersion(<<>>, given, v) IN
         Returns("get_expert_system_status", kwargs,
                 version_check("get_expert_system_status", kwargs, Globals))

\* the result has gone to the caller; the server waits for the next call
Respond ==
    /\ pc = "returned"
    /\ pc' = "serve"
    /\ call' = NoCall
    /\ ran' = NotRun
    /\ result' = NoResult
    /\ UNCHANGED <<roleVars, fileVars, prevVars, dirExists, EXPERTS_CACHE,
                   CURRENT_VERSION, scans>>

\* the environment: a file appears in ./experts while the server runs
FileAdded ==
    /\ pc = "serve"
    /\ dirExists
    /\ Len(dirFiles) < MaxFiles
    /\ \E f \in FileChoices :
         /\ DistinctNames(Append(dirFiles, f))
         /\ dirFiles' = Append(dirFiles, f)
    /\ UNCHANGED <<roleVars, callVars, prevVars, pc, dirExists, templatePresent,
                   EXPERTS_CACHE, CURRENT_VERSION, scans>>

\* the environment: the template file is created or deleted
TemplateChanged ==
    /\ pc = "serve"
    /\ templatePresent' = ~templatePresent
    /\ UNCHANGED <<roleVars, callVars, prevVars, pc, dirExists, dirFiles,
                   EXPERTS_CACHE, CURRENT_VERSION, scans>>

Next ==
    \/ ModuleLoad
    \/ WakeupServer
    \/ GetProjectInstruction
    \/ ConsultExpert
    \/ ConsultMultipleExperts
    \/ ListExperts
    \/ GetExpertSystemStatus
    \/ Respond
    \/ FileAdded
    \/ TemplateChanged

Spec == Init /\ [][Next]_vars

----------------------------------------------------------------------------
(* SpecRestart: the server process is started, ./experts is edited, and    *)
(* the process is started again.  prevCache and prevVersion keep what the  *)
(* first process had loaded.                                               *)

\* a new process: the module globals are None again until line 527 runs
Restart(files) ==
    /\ pc = "serve"
    /\ prevVersion.none
    /\ dirFiles' = files
    /\ prevCache' = EXPERTS_CACHE
    /\ prevVersion' = CURRENT_VERSION
    /\ EXPERTS_CACHE' = NoCache
    /\ CURRENT_VERSION' = None
    /\ scans' = 0
    /\ pc' = "load"
    /\ UNCHANGED <<roleVars, callVars, dirExists, templatePresent>>

RestartUnchanged ==
    \E files \in {dirFiles} : Restart(files)

RestartAfterContentChange ==
    \E i \in 1..Len(dirFiles), c \in ContentChoices :
        /\ c # dirFiles[i].content
        /\ Restart([dirFiles EXCEPT ![i].content = c])

RestartAfterAdd ==
    \E f \in FileChoices, at \in 0..Len(dirFiles) :
        LET files == SubSeq(dirFiles, 1, at) \o <<f>> \o SubSeq(dirFiles, at + 1, Len(dirFiles))
        IN  /\ Len(dirFiles) < MaxFiles
            /\ DistinctNames(files)
            /\ Restart(files)

RestartAfterRemove ==
    \E i \in 1..Len(dirFiles) :
        Restart(SubSeq(dirFiles, 1, i - 1) \o SubSeq(dirFiles, i + 1, Len(dirFiles)))

NextRestart ==
    \/ ModuleLoad
    \/ RestartUnchanged
    \/ RestartAfterContentChange
    \/ RestartAfterAdd
    \/ RestartAfterRemove

SpecRestart == Init /\ [][NextRestart]_vars

----------------------------------------------------------------------------
(* SpecRole: _extract_role applied to one text *)

InitRole ==
    /\ content \in Contents
    /\ role = <<>>
    /\ pc = "input"
    /\ dirExists = FALSE
    /\ dirFiles = <<>>
    /\ templatePresent = FALSE
    /\ EXPERTS_CACHE = NoCache
    /\ CURRENT_VERSION = None
    /\ scans = 0
    /\ call = NoCall
    /\ ran = NotRun
    /\ result = NoResult
    /\ prevCache = NoCache
    /\ prevVersion = None

ExtractRole ==
    /\ pc = "input"
    /\ role' = extract_role(content)
    /\ pc' = "done"
    /\ UNCHANGED <<content, fileVars, callVars, prevVars, dirExists, EXPERTS_CACHE,
                   CURRENT_VERSION, scans>>

NextRole == ExtractRole

SpecRole == InitRole /\ [][NextRole]_vars

----------------------------------------------------------------------------
(* Claims about _extract_role, checked under SpecRole *)

\* C1: for every content, extract_role returns a role that is non-empty and
\* at most 250 characters long.
C1_RoleNonEmptyAtMost250 ==
    pc = "done" => (StrLen(role) >= 1 /\ StrLen(role) <= MaxRoleLen)

RoleOpen == Str(<<"<", "role", ">">>)
RoleClose == Str(<<"<", "/", "role", ">">>)

\* the first place at or after from where tag stands in c, or 0
TagAt(c, tag, from) ==
    LET at == {p \in from..(Len(c) - Len(tag) + 1) : SubSeq(c, p, p + Len(tag) - 1) = tag}
    IN  IF at = {} THEN 0 ELSE CHOOSE p \in at : \A q \in at : p <= q

\* the role block of c: the first opening tag and the first closing tag after it
BlockOpen(c) == TagAt(c, RoleOpen, 1)
BlockClose(c) == IF BlockOpen(c) = 0 THEN 0 ELSE TagAt(c, RoleClose, BlockOpen(c) + Len(RoleOpen))
HasRoleBlock(c) == BlockClose(c) # 0
BlockInner(c) == SubSeq(c, BlockOpen(c) + Len(RoleOpen), BlockClose(c) - 1)

\* the listed form the claim gives an inner text: trimmed, its first non-blank
\* line, followed by the second one when the first is shorter than 50
ListedLine(inner) ==
    LET ls == SplitLines(inner, <<>>)
        nb == {i \in 1..Len(ls) : \E j \in 1..Len(ls[i]) : ~IsSpace(ls[i][j])}
        first == CHOOSE i \in nb : \A j \in nb : i <= j
        rest == nb \ {first}
        second == CHOOSE i \in rest : \A j \in rest : i <= j
    IN  IF nb = {} THEN <<>>
        ELSE IF rest # {} /\ StrLen(Strip(ls[first])) < 50
             THEN Strip(ls[first]) \o <<SP>> \o Strip(ls[second])
             ELSE Strip(ls[first])

\* the listed line, cut to 247 characters and "..." when longer than 250
ListedCut(inner) ==
    LET l == ListedLine(inner) IN
    IF StrLen(l) > 250 THEN Slice(l, 247) \o Str(<<".", ".", ".">>) ELSE l

\* C2 as claimed: for every content with a role block, extract_role returns
\* the trimmed inner text of the block (first non-blank line, merged with the
\* second when the first is shorter than 50), whatever else the content holds.
C2_RoleBlockInnerReturned ==
    (pc = "done" /\ HasRoleBlock(content))
        => Canon(role) = Canon(ListedLine(BlockInner(content)))

\* C2 as amended: when the text between the first opening role tag and the
\* first closing role tag after it holds a non-whitespace character,
\* extract_role returns that text trimmed, reduced to its first non-blank line
\* (merged with the second when the first is shorter than 50), and cut to 247
\* characters plus "..." when that is longer than 250 characters, whatever
\* other markers the content holds before or after the block.
C2_RoleBlockInnerReturnedCut ==
    (pc = "done" /\ HasRoleBlock(content) /\ Strip(BlockInner(content)) # <<>>)
        => Canon(role) = Canon(ListedCut(BlockInner(content)))

\* C2 witness: a role block longer than 250 characters after another marker
\* was extracted and cut.
C2_Witness ==
    /\ pc = "done"
    /\ HasRoleBlock(content)
    /\ BlockOpen(content) > 1
    /\ StrLen(ListedLine(BlockInner(content))) > 250
    /\ StrLen(role) = 250


----------------------------------------------------------------------------
(* Claims about the tools, checked under Spec *)

Experts == EXPERTS_CACHE.experts
Requested == call.kwargs["expert_id"]
VersionStale(kwargs) == VersionOf(kwargs).none \/ VersionOf(kwargs) # CURRENT_VERSION

\* the returned text is the entry of the cached expert at place i
IsEntryOf(out, i) ==
    /\ out.kind = "expert"
    /\ out.id = Experts[i].id
    /\ out.filename = Experts[i].filename
    /\ out.content = Experts[i].content

\* C3 as claimed: consult_expert called with an identifier that is in the
\* loaded expert set returns that expert's entry.
C3_ExactHitReturnsEntry ==
    (pc = "returned" /\ call.tool = "consult_expert")
        => \A i \in 1..Len(Experts) : Experts[i].id = Requested => IsEntryOf(result, i)

\* C3 as amended: consult_expert called with the current version and an
\* identifier that is in the loaded expert set returns that expert's entry
\* (its identifier, its source filename and its whole content).
C3_ExactHitWithCurrentVersionReturnsEntry ==
    (pc = "returned" /\ call.tool = "consult_expert" /\ ~VersionStale(call.kwargs))
        => \A i \in 1..Len(Experts) : Experts[i].id = Requested => IsEntryOf(result, i)

\* C3 witness: with two experts loaded, the second one was asked for by its
\* identifier with the current version, and its entry came back.
C3_Witness ==
    /\ pc = "returned"
    /\ call.tool = "consult_expert"
    /\ ~VersionStale(call.kwargs)
    /\ Len(Experts) = 2
    /\ Experts[2].id = Requested
    /\ IsEntryOf(result, 2)

\* C4: with python_specialist and data_analysis loaded, consult_expert run
\* for "python" returns the content of python_specialist, marked as
\* auto-routed, and not a not-found error.
C4_PythonAutoRouted ==
    (/\ pc = "returned"
     /\ ran.body = "consult_expert"
     /\ Requested = "python"
     /\ {Experts[i].id : i \in 1..Len(Experts)} = {"python_specialist", "data_analysis"})
        => (result.kind = "expert" /\ result.id = "python_specialist")

\* C5: with no experts loaded, consult_expert run for any identifier returns
\* an outcome other than the not-found outcome.
C5_EmptyIsNotNotFound ==
    (pc = "returned" /\ ran.body = "consult_expert" /\ Experts = <<>>)
        => result.kind # "not_found"

\* the prior version the caller of get_project_instruction supplied, in
\* whichever of its two parameters
Supplied(kwargs) ==
    IF ~kwargs["current_version"].none THEN kwargs["current_version"] ELSE kwargs["version"]

\* at most one of the two parameters carries a value
OneSupplied(kwargs) == kwargs["current_version"].none \/ kwargs["version"].none

\* C6: get_project_instruction picks its banner from the supplied prior
\* version alone: none gives "initial setup", the current fingerprint gives
\* "up to date", every other string (the empty string too) gives "update
\* required" naming the supplied and the current version.
C6_BannerFromSuppliedVersion ==
    (/\ pc = "returned"
     /\ call.tool = "get_project_instruction"
     /\ OneSupplied(call.kwargs)
     /\ result.kind = "instruction")
        => /\ result.version = CURRENT_VERSION
           /\ IF Supplied(call.kwargs).none THEN result.banner = "initial_setup"
              ELSE IF Supplied(call.kwargs) = CURRENT_VERSION THEN result.banner = "up_to_date"
              ELSE /\ result.banner = "update_required"
                   /\ result.provided = Supplied(call.kwargs)

\* the kinds of text each tool body returns
BodyKinds(tool) ==
    CASE tool = "consult_expert" -> {"expert", "not_found"}
      [] tool = "consult_multiple_experts" -> {"multiple"}
      [] tool = "list_experts" -> {"listing", "no_experts"}
      [] tool = "get_expert_system_status" -> {"status"}

BodyRanWithoutVersion ==
    /\ ran.body = call.tool
    /\ ran.keys = DOMAIN call.kwargs \ {"version"}
    /\ result.kind \in BodyKinds(call.tool)

IsUpdateText(out) ==
    /\ out.kind = "version_update"
    /\ out.version = CURRENT_VERSION
    /\ out.provided = VersionOf(call.kwargs)

\* C7 as claimed: a version-checked tool called with a missing or different
\* version does not run its body and returns the project-instruction update
\* text; called with the current version it runs its body without the
\* version argument and returns the body's result.
C7_VersionGate ==
    (pc = "returned" /\ call.tool \in Checked)
        => IF VersionStale(call.kwargs)
           THEN ran.body = "none" /\ IsUpdateText(result)
           ELSE BodyRanWithoutVersion

\* C7 as amended: a version-checked tool called with a missing or different
\* version does not run its body and returns the project-instruction update
\* text, or the configuration-error text when the template file is missing;
\* called with the current version it runs its body without the version
\* argument and returns the body's result.
C7_VersionGateOrConfigError ==
    (pc = "returned" /\ call.tool \in Checked)
        => IF VersionStale(call.kwargs)
           THEN /\ ran.body = "none"
                /\ IF templatePresent THEN IsUpdateText(result)
                   ELSE result.kind = "config_error"
           ELSE BodyRanWithoutVersion

\* C7 witness: a call with a stale version got the update text and ran no body.
C7_Witness ==
    /\ pc = "returned"
    /\ call.tool = "consult_multiple_experts"
    /\ ~VersionOf(call.kwargs).none
    /\ VersionStale(call.kwargs)
    /\ ran.body = "none"
    /\ result.kind = "version_update"
    /\ result.banner = "update_required"

NeedsTemplate(c) ==
    \/ c.tool = "get_project_instruction"
    \/ c.tool \in Checked /\ VersionStale(c.kwargs)

\* C8: when the template file is missing, get_project_instruction and every
\* version-checked tool called with a missing or different version return
\* the configuration-error text, raise nothing, and leave the cached experts
\* and the cached version as they were.
C8_MissingTemplateIsConfigError ==
    [][(pc = "serve" /\ pc' = "returned" /\ ~templatePresent /\ NeedsTemplate(call'))
          => /\ result'.kind = "config_error"
             /\ EXPERTS_CACHE' = EXPERTS_CACHE
             /\ CURRENT_VERSION' = CURRENT_VERSION]_vars

\* C8 witness: the template is missing and a version-checked tool called
\* without a version returned the configuration error.
C8_Witness ==
    /\ pc = "returned"
    /\ ~templatePresent
    /\ call.tool = "list_experts"
    /\ VersionOf(call.kwargs).none
    /\ result.kind = "config_error"
    /\ Experts # <<>>

\* C10: after the scan at module load no step runs the scan again or changes
\* the cached experts or the cached version.
C10_OneScanCacheFrozen ==
    [][pc # "load"
          => /\ scans = 1
             /\ scans' = scans
             /\ EXPERTS_CACHE' = EXPERTS_CACHE
             /\ CURRENT_VERSION' = CURRENT_VERSION]_vars

\* C10 witness: nothing was loaded, a qualifying file has appeared since, and
\* list_experts, run with the current version, still found no experts.
C10_Witness ==
    /\ pc = "returned"
    /\ ran.body = "list_experts"
    /\ result.kind = "no_experts"
    /\ CURRENT_VERSION = Literal("empty")
    /\ scans = 1
    /\ \E i \in 1..Len(dirFiles) : Qualifies(dirFiles[i]) /\ dirFiles[i].readable

----------------------------------------------------------------------------
(* The claim about the version fingerprint, checked under SpecRestart *)

Without(d, i) == SubSeq(d, 1, i - 1) \o SubSeq(d, i + 1, Len(d))

\* b is a with the content of one expert changed
ContentChanged(a, b) ==
    /\ Len(a) = Len(b)
    /\ \E i \in 1..Len(a) :
         /\ a[i].content # b[i].content
         /\ a[i].id = b[i].id
         /\ \A j \in 1..Len(a) : j # i => a[j] = b[j]

\* b is a with one expert added
ExpertAdded(a, b) == \E i \in 1..Len(b) : Without(b, i) = a

Contents2(d) == [i \in 1..Len(d) |-> d[i].content]

\* C9: two snapshots that differ by one changed content, one added expert
\* (its content may be empty) or one removed expert have different
\* fingerprints; two snapshots with the same contents in the same order
\* have the same fingerprint.
C9_FingerprintDetectsEveryChange ==
    (pc = "serve" /\ ~prevVersion.none)
        => /\ (\/ ContentChanged(prevCache.experts, Experts)
               \/ ExpertAdded(prevCache.experts, Experts)
               \/ ExpertAdded(Experts, prevCache.experts))
                  => CURRENT_VERSION # prevVersion
           /\ Contents2(prevCache.experts) = Contents2(Experts)
                  => CURRENT_VERSION = prevVersion

----------------------------------------------------------------------------
(* SpecScan: the scan at module load over a directory of up to three       *)
(* entries, some of which cannot be read                                   *)

MaxScanFiles == 3

\* the entries of FileChoices and an unreadable file that shares its stem
\* with a readable one
ScanChoices == FileChoices \cup {File("data_analysis", ".yml", TRUE, FALSE, <<>>)}

ScanDirectories ==
    {d \in UNION {[1..n -> ScanChoices] : n \in 0..MaxScanFiles} : DistinctNames(d)}

InitScan ==
    /\ content = <<>>
    /\ role = <<>>
    /\ pc = "load"
    /\ dirExists = TRUE
    /\ dirFiles \in ScanDirectories
    /\ templatePresent \in BOOLEAN
    /\ EXPERTS_CACHE = NoCache
    /\ CURRENT_VERSION = None
    /\ scans = 0
    /\ call = NoCall
    /\ ran = NotRun
    /\ result = NoResult
    /\ prevCache = NoCache
    /\ prevVersion = None

NextScan == ModuleLoad

SpecScan == InitScan /\ [][NextScan]_vars

----------------------------------------------------------------------------
(* The claim about the scan, checked under SpecScan *)

\* a qualifying file whose read or decode raises
Fails(f) == Qualifies(f) /\ ~f.readable

\* a qualifying file that is read
Reads(f) == Qualifies(f) /\ f.readable

\* the mapping holds the file under its stem with its content, its role and
\* its file name
HasEntryOf(f) ==
    \E i \in 1..Len(Experts) :
        /\ Experts[i].id = f.stem
        /\ Experts[i].content = f.content
        /\ Experts[i].role = extract_role(f.content)
        /\ Experts[i].filename = Name(f)

\* every entry of the mapping is a file that was read, and no entry is a
\* file that failed
OnlyReadFiles ==
    /\ \A i \in 1..Len(Experts) :
           \E j \in 1..Len(dirFiles) :
               /\ Reads(dirFiles[j])
               /\ Experts[i].filename = Name(dirFiles[j])
               /\ Experts[i].content = dirFiles[j].content
    /\ \A j \in 1..Len(dirFiles) :
           Fails(dirFiles[j]) =>
               \A i \in 1..Len(Experts) : Experts[i].filename # Name(dirFiles[j])

\* the version is the digest of the contents of the entries of the mapping,
\* or "empty" when there is none
VersionOverLoaded ==
    CURRENT_VERSION =
        IF Len(Experts) = 0 THEN Literal("empty")
        ELSE md5(Join([i \in 1..Len(Experts) |-> Experts[i].content]))

\* a file read after place j has the stem of the file at place j
StemReadLater(j) ==
    \E k \in (j + 1)..Len(dirFiles) :
        Reads(dirFiles[k]) /\ dirFiles[k].stem = dirFiles[j].stem

ScannedWithFailure == pc = "serve" /\ \E i \in 1..Len(dirFiles) : Fails(dirFiles[i])

\* C11 as claimed: when the read of a file fails during the scan, every other
\* qualifying file, scanned before or after it, is in the mapping with its
\* content, role and file name, and the version is computed over exactly
\* the files that were read.
C11_FailureSkipsOnlyThatFile ==
    ScannedWithFailure
        => /\ \A j \in 1..Len(dirFiles) : Reads(dirFiles[j]) => HasEntryOf(dirFiles[j])
           /\ OnlyReadFiles
           /\ VersionOverLoaded

\* C11 as amended: when the read of a file fails during the scan, every other
\* qualifying file, scanned before or after it, is in the mapping with its
\* content, role and file name unless a file with the same stem is read
\* after it, and the version is computed over exactly the entries of the
\* mapping.
C11_FailureSkipsOnlyThatFileUnlessStemReused ==
    ScannedWithFailure
        => /\ \A j \in 1..Len(dirFiles) :
                  (Reads(dirFiles[j]) /\ ~StemReadLater(j)) => HasEntryOf(dirFiles[j])
           /\ OnlyReadFiles
           /\ VersionOverLoaded

\* C11 witness: the second of three files failed, and the files before and
\* after it are both in the mapping.
C11_Witness ==
    /\ pc = "serve"
    /\ Len(dirFiles) = 3
    /\ Fails(dirFiles[2])
    /\ Reads(dirFiles[1])
    /\ Reads(dirFiles[3])
    /\ dirFiles[1].stem # dirFiles[3].stem
    /\ HasEntryOf(dirFiles[1])
    /\ HasEntryOf(dirFiles[3])
    /\ Len(Experts) = 2

====
